---- MODULE Spec2Model ----
(***************************************************************************)
(* Weather MCP server (build/weather/main.js): the HTTP request handler of *)
(* main() and the single active-transport slot it keeps.                   *)
(*                                                                         *)
(* Node runs the handler on one event loop: every handler and callback     *)
(* runs from its start to its next `await` without interleaving, so each   *)
(* such run is one action.  The SSE transport and the MCP server object    *)
(* come from the SDK; what they do when called is modelled by their        *)
(* contract (close() ends the stream and returns a promise, connect()      *)
(* attaches the server and starts the transport, handlePostMessage()       *)
(* answers on the POST response or throws), with every outcome the caller  *)
(* cannot control left nondeterministic.                                   *)
(*                                                                         *)
(* Browser MCP server (src/playwright/playwright.ts): the shared browser   *)
(* and page set up by ensureBrowser, the screenshot registry, and the      *)
(* resource handlers that list and read it.  The two servers are separate  *)
(* programs: Spec runs the weather server, SpecBrowser the browser server, *)
(* and each leaves the other's variables as they start.                    *)
(***************************************************************************)
EXTENDS Integers, FiniteSets, Sequences, TLC

\* Largest number of GET /mcp connections accepted in a run.
MaxSessions == 3

\* `let activeTransport = null`
NULL == 0

Sessions == 1..MaxSessions

VARIABLES
    activeTransport,   \* the slot: NULL or the session installed at line 225
    created,           \* number of SSEServerTransport objects constructed
    stream,            \* per session: "none" | "open" | "closed" (its res)
    closeSignalled,    \* sessions on which close() has been called
    serverTransport,   \* the transport the MCP server is connected to
    connecting,        \* sessions whose `await server.connect` is pending
    delivered,         \* sessions whose handlePostMessage was given a message
    closedCb,          \* sessions whose onclose callback has run
    unhandled,         \* a rejected promise nobody awaits has escaped
    lastEvent          \* the handler or callback that ran last, its result

wvars == <<activeTransport, created, stream, closeSignalled, serverTransport,
           connecting, delivered, closedCb, unhandled, lastEvent>>

\* Largest number of tool calls in a run of the browser server.
MaxCalls == 2

Calls == 1..MaxCalls

VARIABLES
    browser,           \* `let browser`: NULL (undefined) or the browser held
    page,              \* `let page`: NULL (undefined) or the page held
    launched,          \* number of chromium.launch calls made
    cpc,               \* per tool call: where its handler is suspended
    mine,              \* per tool call: the browser its own launch yields
    ret,               \* per tool call: the page ensureBrowser returned
    screenshots,       \* the Map `screenshots`: name -> image or Undefined
    lastRead           \* the last ReadResource request and its result

bvars == <<browser, page, launched, cpc, mine, ret, screenshots, lastRead>>

vars == <<wvars, bvars>>

\* The part of the state the callbacks and the accept sequence work on.
Mgr == [active |-> activeTransport, server |-> serverTransport,
        stream |-> stream, sig |-> closeSignalled]

\* lastEvent: type is the handler or callback, s the session it was about,
\* old the slot before it ran, status the HTTP status it wrote ("handler":
\* the session's own handler wrote the response), failed whether the call
\* it made failed, log the console message it wrote, sent whether
\* res.headersSent was true when a failure was caught, dup whether it is a
\* close callback of a session whose close callback had already run.
NoEvent == [type |-> "none", s |-> NULL, old |-> NULL, status |-> "none",
            failed |-> FALSE, log |-> "none", sent |-> FALSE, dup |-> FALSE]

Event(type, s, old, status, failed, log) ==
    [type |-> type, s |-> s, old |-> old, status |-> status,
     failed |-> failed, log |-> log, sent |-> FALSE, dup |-> FALSE]

\* transport.close(): ends the session's response stream.
TransportClose(m, s) ==
    [m EXCEPT !.stream[s] = "closed", !.sig = @ \cup {s}]

\* server.close(): closes the transport the server is connected to.
ServerClose(m) ==
    IF m.server = NULL THEN m
    ELSE [TransportClose(m, m.server) EXCEPT !.server = NULL]

\* Variant: a callback that finds the slot already empty puts its own
\* session back.
OnClose_Restore(m, s) ==
    IF m.active = NULL THEN [m EXCEPT !.active = s]
    ELSE ServerClose([m EXCEPT !.active = NULL])

\* transport.onclose of session s (s is not used by the callback's body).
OnClose(m, s) ==
    ServerClose([m EXCEPT !.active = NULL])

\* transport.onerror of session s (s is not used by the callback's body).
OnError(m, s) ==
    [m EXCEPT !.active = NULL]

\* Variant: the transport in the slot is replaced without being closed.
CloseExisting_Skip(m, syncOnclose) == m

\* Lines 221-223: close the transport in the slot, if there is one.  The
\* transport may run its own onclose from inside close().
CloseExisting(m, syncOnclose) ==
    IF m.active = NULL THEN m
    ELSE LET c == TransportClose(m, m.active)
         IN  IF syncOnclose THEN OnClose(c, m.active) ELSE c

\* Lines 224-225: construct the transport on `res` and install it.
InstallNew(m, t) ==
    [m EXCEPT !.stream[t] = "open", !.active = t]

\* Line 236, up to the await: the server is attached to the transport.
ServerConnect(m, t) ==
    [m EXCEPT !.server = t]

\* Variant: the new transport is installed first and the old one closed
\* afterwards, so an onclose run from inside close() empties the slot.
AcceptSequence_CloseLast(m, t, syncOnclose) ==
    LET n == ServerConnect(InstallNew(m, t), t)
    IN  IF m.active = NULL THEN n
        ELSE LET c == TransportClose(n, m.active)
             IN  IF syncOnclose THEN OnClose(c, m.active) ELSE c

\* Lines 221-236 up to the await, in program order.
AcceptSequence(m, t, syncOnclose) ==
    ServerConnect(InstallNew(CloseExisting(m, syncOnclose), t), t)

SetMgr(m) ==
    /\ activeTransport' = m.active
    /\ serverTransport' = m.server
    /\ stream' = m.stream
    /\ closeSignalled' = m.sig

\* GET /mcp, from the start of the handler to `await server.connect`.
\* closeRejects: the promise returned by close() rejects; the handler
\* neither awaits nor catches it.
AcceptConnection(closeRejects, syncOnclose) ==
    /\ created < MaxSessions
    /\ (activeTransport = NULL) => (~closeRejects /\ ~syncOnclose)
    /\ LET t == created + 1
       IN  /\ SetMgr(AcceptSequence(Mgr, t, syncOnclose))
           /\ created' = t
           /\ connecting' = connecting \cup {t}
           /\ unhandled' = (unhandled \/ closeRejects)
           /\ lastEvent' = Event("accept", t, activeTransport, "none",
                                 closeRejects, "none")
    /\ UNCHANGED <<delivered, closedCb>>
    /\ UNCHANGED bvars

\* `await server.connect(transport)` resolves: the handler returns.
ConnectResolve(s) ==
    /\ s \in connecting
    /\ connecting' = connecting \ {s}
    /\ lastEvent' = Event("connectOk", s, activeTransport, "none", FALSE,
                          "none")
    /\ UNCHANGED <<activeTransport, created, stream, closeSignalled,
                   serverTransport, delivered, closedCb, unhandled>>
    /\ UNCHANGED bvars

\* `await server.connect(transport)` rejects: lines 238-242.
ConnectReject(s) ==
    /\ s \in connecting
    /\ connecting' = connecting \ {s}
    /\ stream' = [stream EXCEPT ![s] = "closed"]
    /\ lastEvent' = Event("connectFail", s, activeTransport, "500", TRUE,
                          "Error setting up SSE connection")
    /\ UNCHANGED <<activeTransport, created, closeSignalled, serverTransport,
                   delivered, closedCb, unhandled>>
    /\ UNCHANGED bvars

\* Variant: messages go to the first session ever accepted.
RouteTarget_First == IF created = 0 THEN NULL ELSE 1

\* The session a POST is forwarded to.
RouteTarget == activeTransport

\* Variant: the check for an empty slot is missing.
RouteReply_NoIdleCheck(a, threw, headersSent) ==
    IF ~threw THEN "handler"
    ELSE IF ~headersSent THEN "500"
    ELSE "handler"

\* Variant: the catch block logs the error and writes no response.
RouteReply_NoCatchReply(a, threw, headersSent) ==
    IF a = NULL THEN "400"
    ELSE IF ~threw THEN "handler"
    ELSE IF ~headersSent THEN "none"
    ELSE "handler"

\* The status the requester of a POST ends up with.  a is the slot, threw
\* whether handlePostMessage threw, headersSent is res.headersSent in the
\* catch block.  "handler": the response the session's handler wrote.
RouteReply(a, threw, headersSent) ==
    IF a = NULL THEN "400"
    ELSE IF ~threw THEN "handler"
    ELSE IF ~headersSent THEN "500"
    ELSE "handler"

\* POST /mcp.  outcome is what handlePostMessage does: "ok" (it answered on
\* res), "throws" (before any header was sent), "throwsSent" (after it had
\* begun the response itself).
RouteMessage(outcome) ==
    /\ IF activeTransport = NULL
       THEN /\ outcome = "ok"
            /\ lastEvent' = Event("route", NULL, NULL,
                                  RouteReply(activeTransport, FALSE, FALSE),
                                  FALSE, "none")
            /\ UNCHANGED delivered
       ELSE /\ delivered' = delivered \cup {RouteTarget}
            /\ IF outcome = "ok"
               THEN lastEvent' = Event("route", RouteTarget, activeTransport,
                                       RouteReply(activeTransport, FALSE,
                                                  TRUE),
                                       FALSE, "none")
               ELSE lastEvent' =
                        [Event("route", RouteTarget, activeTransport,
                               RouteReply(activeTransport, TRUE,
                                          outcome = "throwsSent"),
                               TRUE, "Error handling POST message")
                         EXCEPT !.sent = (outcome = "throwsSent")]
    /\ UNCHANGED <<activeTransport, created, stream, closeSignalled,
                   serverTransport, connecting, closedCb, unhandled>>
    /\ UNCHANGED bvars

\* The transport of session s reports that its connection has closed: the
\* stream is gone and transport.onclose runs.
CloseCallback(s) ==
    /\ stream[s] # "none"
    /\ SetMgr(OnClose([Mgr EXCEPT !.stream[s] = "closed"], s))
    /\ closedCb' = closedCb \cup {s}
    /\ lastEvent' = [Event("close", s, activeTransport, "none", FALSE,
                           "Client disconnected")
                     EXCEPT !.dup = (s \in closedCb)]
    /\ UNCHANGED <<created, connecting, delivered, unhandled>>
    /\ UNCHANGED bvars

\* The transport of session s reports an error: transport.onerror runs.
ErrorCallback(s) ==
    /\ stream[s] # "none"
    /\ SetMgr(OnError(Mgr, s))
    /\ lastEvent' = Event("error", s, activeTransport, "none", FALSE,
                          "Transport error")
    /\ UNCHANGED <<created, connecting, delivered, closedCb, unhandled>>
    /\ UNCHANGED bvars

(***************************************************************************)
(* The browser server.                                                     *)
(***************************************************************************)

\* Strings are sequences of symbols: the characters that matter to the URI
\* handling (":" and "/") are single symbols, a run of other characters is
\* one symbol.
Sep == <<":", "/", "/">>

\* Values of args.name given to playwright_screenshot.
ArgNames == {<<"a">>, <<"a", ":", "/", "/", "b">>}

\* Values of Date.now() seen by the tools that name their own screenshot.
Stamps == {"1"}

\* `navigate_${Date.now()}` (likewise click_, hover_, evaluate_).
GeneratedName(t) == <<"navigate_", t>>

GenNames == {GeneratedName(t) : t \in Stamps}

AllNames == ArgNames \cup GenNames

\* buf.toString("base64") of a screenshot: a non-empty string.
Images == {"img1", "img2"}

\* What Map.get gives for a missing key.
Undefined == "undefined"

NotFound == "Resource not found"

ConsoleUri == <<"console", ":", "/", "/", "logs">>

\* `screenshot://${name}`
ScreenshotUri(name) == <<"screenshot">> \o Sep \o name

\* Array.from(screenshots.keys())
Keys == {n \in AllNames : screenshots[n] # Undefined}

\* The uris the ListResources handler answers with.
ListResources == {ConsoleUri} \cup {ScreenshotUri(n) : n \in Keys}

\* String.prototype.startsWith
StartsWith(str, prefix) ==
    /\ Len(str) >= Len(prefix)
    /\ SubSeq(str, 1, Len(prefix)) = prefix

\* String.prototype.split(sep): the pieces of str between the occurrences
\* of sep, found left to right.
RECURSIVE Split(_, _)
Split(str, sep) ==
    LET hits == {i \in 1..(Len(str) - Len(sep) + 1) :
                    SubSeq(str, i, i + Len(sep) - 1) = sep}
    IN  IF hits = {} THEN <<str>>
        ELSE LET i == CHOOSE h \in hits : \A g \in hits : h <= g
             IN  <<SubSeq(str, 1, i - 1)>>
                 \o Split(SubSeq(str, i + Len(sep), Len(str)), sep)

\* screenshots.get(name)
Get(name) ==
    IF name \in AllNames THEN screenshots[name] ELSE Undefined

\* uri.split("://")[1]
NameOfUri(uri) == Split(uri, Sep)[2]

\* The ReadResource handler: the text or blob it returns, or NotFound when
\* it throws.
ReadResource(uri) ==
    IF uri = ConsoleUri THEN "logs"
    ELSE IF StartsWith(uri, <<"screenshot">> \o Sep)
         THEN LET shot == Get(NameOfUri(uri))
              IN  IF shot # Undefined THEN shot ELSE NotFound
         ELSE NotFound

\* The uris a client asks for: those of every name, and two that are never
\* listed.
Uris ==
    {ConsoleUri} \cup {ScreenshotUri(n) : n \in AllNames}
    \cup {ScreenshotUri(<<"zzz">>), <<"file", ":", "/", "/", "a">>}

NoRead == [uri |-> <<>>, result |-> "none", listed |-> FALSE,
           stored |-> Undefined]

\* The image held under the name a listed screenshot uri was made from.
StoredFor(uri) ==
    IF \E n \in Keys : ScreenshotUri(n) = uri
    THEN screenshots[CHOOSE n \in Keys : ScreenshotUri(n) = uri]
    ELSE Undefined

\* handleToolCall starts: ensureBrowser runs up to its first await, or to
\* its return when a browser is already held.
EnsureBrowser(c) ==
    /\ cpc[c] = "idle"
    /\ IF browser = NULL
       THEN /\ launched' = launched + 1
            /\ mine' = [mine EXCEPT ![c] = launched + 1]
            /\ cpc' = [cpc EXCEPT ![c] = "launch"]
            /\ UNCHANGED ret
       ELSE /\ ret' = [ret EXCEPT ![c] = page]
            /\ cpc' = [cpc EXCEPT ![c] = "ready"]
            /\ UNCHANGED <<launched, mine>>
    /\ UNCHANGED <<browser, page, screenshots, lastRead>>
    /\ UNCHANGED wvars

\* chromium.launch resolves: `browser` is assigned, browser.newContext()
\* is called.
LaunchResolved(c) ==
    /\ cpc[c] = "launch"
    /\ browser' = mine[c]
    /\ cpc' = [cpc EXCEPT ![c] = "newContext"]
    /\ UNCHANGED <<page, launched, mine, ret, screenshots, lastRead>>
    /\ UNCHANGED wvars

\* browser.newContext() resolves: context.newPage() is called.
ContextResolved(c) ==
    /\ cpc[c] = "newContext"
    /\ cpc' = [cpc EXCEPT ![c] = "newPage"]
    /\ UNCHANGED <<browser, page, launched, mine, ret, screenshots,
                   lastRead>>
    /\ UNCHANGED wvars

\* context.newPage() resolves: `page` is assigned, the console listener is
\* attached and ensureBrowser returns page.
PageResolved(c) ==
    /\ cpc[c] = "newPage"
    /\ page' = mine[c]
    /\ ret' = [ret EXCEPT ![c] = mine[c]]
    /\ cpc' = [cpc EXCEPT ![c] = "ready"]
    /\ UNCHANGED <<browser, launched, mine, screenshots, lastRead>>
    /\ UNCHANGED wvars

\* The call the handler is awaiting rejects (launch, newContext, newPage,
\* goto, screenshot): the handler ends with that error.
ProviderFails(c) ==
    /\ cpc[c] \in {"launch", "newContext", "newPage", "goto", "shotArg",
                   "shotGen"}
    /\ cpc' = [cpc EXCEPT ![c] = "failed"]
    /\ UNCHANGED <<browser, page, launched, mine, ret, screenshots,
                   lastRead>>
    /\ UNCHANGED wvars

\* The switch of handleToolCall with the page ensureBrowser returned: the
\* first call on the page (goto or screenshot) throws when it is undefined.
ToolStart(c, tool) ==
    /\ cpc[c] = "ready"
    /\ cpc' = [cpc EXCEPT ![c] =
                  IF ret[c] = NULL THEN "failed"
                  ELSE IF tool = "playwright_screenshot" THEN "shotArg"
                  ELSE "goto"]
    /\ UNCHANGED <<browser, page, launched, mine, ret, screenshots,
                   lastRead>>
    /\ UNCHANGED wvars

\* page.goto resolves: takeScreenshot is called.
GotoResolved(c) ==
    /\ cpc[c] = "goto"
    /\ cpc' = [cpc EXCEPT ![c] = "shotGen"]
    /\ UNCHANGED <<browser, page, launched, mine, ret, screenshots,
                   lastRead>>
    /\ UNCHANGED wvars

\* page.screenshot resolves: the image is stored under args.name
\* (playwright_screenshot) or under the generated name (takeScreenshot).
ShotResolved(c, name, img) ==
    /\ \/ cpc[c] = "shotArg" /\ name \in ArgNames
       \/ cpc[c] = "shotGen" /\ name \in GenNames
    /\ screenshots' = [screenshots EXCEPT ![name] = img]
    /\ cpc' = [cpc EXCEPT ![c] = "done"]
    /\ UNCHANGED <<browser, page, launched, mine, ret, lastRead>>
    /\ UNCHANGED wvars

\* A ReadResource request.
ReadRequest(uri) ==
    /\ lastRead' = [uri |-> uri, result |-> ReadResource(uri),
                    listed |-> (uri \in ListResources),
                    stored |-> StoredFor(uri)]
    /\ UNCHANGED <<browser, page, launched, cpc, mine, ret, screenshots>>
    /\ UNCHANGED wvars

BrowserInit ==
    /\ browser = NULL
    /\ page = NULL
    /\ launched = 0
    /\ cpc = [c \in Calls |-> "idle"]
    /\ mine = [c \in Calls |-> NULL]
    /\ ret = [c \in Calls |-> NULL]
    /\ screenshots = [n \in AllNames |-> Undefined]
    /\ lastRead = NoRead

BrowserNext ==
    \/ \E c \in Calls : EnsureBrowser(c)
    \/ \E c \in Calls : LaunchResolved(c)
    \/ \E c \in Calls : ContextResolved(c)
    \/ \E c \in Calls : PageResolved(c)
    \/ \E c \in Calls : ProviderFails(c)
    \/ \E c \in Calls, t \in {"playwright_screenshot", "playwright_navigate"} :
          ToolStart(c, t)
    \/ \E c \in Calls : GotoResolved(c)
    \/ \E c \in Calls, n \in AllNames, i \in Images : ShotResolved(c, n, i)
    \/ \E u \in Uris : ReadRequest(u)

Init ==
    /\ BrowserInit
    /\ activeTransport = NULL
    /\ created = 0
    /\ stream = [s \in Sessions |-> "none"]
    /\ closeSignalled = {}
    /\ serverTransport = NULL
    /\ connecting = {}
    /\ delivered = {}
    /\ closedCb = {}
    /\ unhandled = FALSE
    /\ lastEvent = NoEvent

Next ==
    \/ \E r \in BOOLEAN, c \in BOOLEAN : AcceptConnection(r, c)
    \/ \E s \in Sessions : ConnectResolve(s)
    \/ \E s \in Sessions : ConnectReject(s)
    \/ \E o \in {"ok", "throws", "throwsSent"} : RouteMessage(o)
    \/ \E s \in Sessions : CloseCallback(s)
    \/ \E s \in Sessions : ErrorCallback(s)

Spec == Init /\ [][Next]_vars

SpecBrowser == Init /\ [][BrowserNext]_vars

TypeOK ==
    /\ activeTransport \in Sessions \cup {NULL}
    /\ created \in 0..MaxSessions
    /\ stream \in [Sessions -> {"none", "open", "closed"}]
    /\ closeSignalled \subseteq Sessions
    /\ serverTransport \in Sessions \cup {NULL}
    /\ connecting \subseteq Sessions
    /\ delivered \subseteq Sessions
    /\ closedCb \subseteq Sessions
    /\ unhandled \in BOOLEAN

OpenStreams == {s \in Sessions : stream[s] = "open"}

(***************************************************************************)
(* C1: at most one session has an open output stream at any time.          *)
(***************************************************************************)
C1_AtMostOneOpenStream == Cardinality(OpenStreams) <= 1

(***************************************************************************)
(* C2: a close callback of a session that is not the active one leaves     *)
(* the slot as it was: the newer session stays active.                     *)
(***************************************************************************)
C2_StaleCloseIsNoOp ==
    (lastEvent.type = "close" /\ lastEvent.old # NULL
        /\ lastEvent.old # lastEvent.s)
    => activeTransport = lastEvent.old

C4_IdleRouteReplies400 ==
    [][(lastEvent'.type = "route" /\ activeTransport = NULL
            /\ lastEvent' # lastEvent)
       => /\ lastEvent'.status = "400"
          /\ ~lastEvent'.failed
          /\ lastEvent'.s = NULL
          /\ delivered' = delivered
          /\ unhandled' = unhandled
          /\ activeTransport' = NULL]_vars

C4_Witness ==
    /\ lastEvent.type = "route"
    /\ lastEvent.old = NULL
    /\ lastEvent.status = "400"
    /\ created > 0
    /\ activeTransport = NULL

(***************************************************************************)
(* C5: a forwarded message is handed to the session in the slot, which is  *)
(* the most recently accepted session and never a superseded one, and      *)
(* forwarding leaves the slot unchanged.                                   *)
(***************************************************************************)
C5_RoutedToCurrent ==
    [][(lastEvent'.type = "route" /\ activeTransport # NULL
            /\ lastEvent' # lastEvent)
       => /\ lastEvent'.s = activeTransport
          /\ lastEvent'.s = created
          /\ lastEvent'.s \notin closeSignalled
          /\ delivered' = delivered \cup {activeTransport}
          /\ activeTransport' = activeTransport]_vars

C5_Witness ==
    /\ lastEvent.type = "route"
    /\ lastEvent.s = 2
    /\ delivered = {2}
    /\ 1 \in closeSignalled
    /\ activeTransport = 2

(***************************************************************************)
(* C6: when closing the prior session fails during GET /mcp, the failure   *)
(* is logged and swallowed and the new session is installed.               *)
(***************************************************************************)
C6_CloseFailureSwallowed ==
    (lastEvent.type = "accept" /\ lastEvent.failed)
    => /\ activeTransport = lastEvent.s
       /\ lastEvent.log # "none"
       /\ ~unhandled

(***************************************************************************)
(* C7 as stated: when the session's message handler throws, the requester  *)
(* gets status 500 and the slot is unchanged.                              *)
(***************************************************************************)
C7_HandlerErrorGets500 ==
    (lastEvent.type = "route" /\ lastEvent.failed)
    => /\ lastEvent.status = "500"
       /\ activeTransport = lastEvent.old

(***************************************************************************)
(* C7 amended: when the session's message handler throws, the error is     *)
(* caught and logged and the slot is unchanged; the manager answers with   *)
(* status 500 exactly when no response headers had been sent, and leaves   *)
(* the response the handler had begun in place otherwise.                  *)
(***************************************************************************)
C7_HandlerErrorCaught ==
    [][(lastEvent'.type = "route" /\ lastEvent'.failed
            /\ lastEvent' # lastEvent)
       => /\ lastEvent'.status = (IF lastEvent'.sent THEN "handler"
                                  ELSE "500")
          /\ lastEvent'.log = "Error handling POST message"
          /\ unhandled' = unhandled
          /\ activeTransport' = activeTransport
          /\ activeTransport # NULL]_vars

C7_Witness ==
    /\ lastEvent.type = "route"
    /\ lastEvent.failed
    /\ ~lastEvent.sent
    /\ lastEvent.status = "500"
    /\ activeTransport = lastEvent.s

(***************************************************************************)
(* C8: an error reported on the active session is handled as a close of    *)
(* that session: the slot is emptied and the close path has run for it     *)
(* (its stream is closed and the server is detached from it).              *)
(***************************************************************************)
C8_ErrorTreatedAsClose ==
    (lastEvent.type = "error" /\ lastEvent.old = lastEvent.s)
    => /\ activeTransport = NULL
       /\ stream[lastEvent.s] = "closed"
       /\ serverTransport # lastEvent.s

(***************************************************************************)
(* C9: the slot starts empty and is always empty or one session; a GET     *)
(* /mcp handled while a session is active leaves a session in the slot:    *)
(* no state in which the slot is empty lies between the old session and    *)
(* the new one.                                                            *)
(***************************************************************************)
C9_ActiveToActive ==
    /\ activeTransport = NULL
    /\ [](activeTransport \in Sessions \cup {NULL})
    /\ [][(created' = created + 1 /\ activeTransport # NULL)
          => activeTransport' = created']_vars

C9_Witness ==
    /\ lastEvent.type = "accept"
    /\ lastEvent.old = 1
    /\ activeTransport = 2
    /\ 1 \in closeSignalled

(***************************************************************************)
(* C10: when the close callback of a session runs again right after it     *)
(* has run, nothing is raised and the slot, the server's connection and    *)
(* the streams are as the first run left them.                             *)
(***************************************************************************)
C10_CloseIdempotent ==
    [][(lastEvent.type = "close" /\ lastEvent'.type = "close"
            /\ lastEvent'.s = lastEvent.s /\ lastEvent' # lastEvent)
       => /\ Mgr' = Mgr
          /\ unhandled' = unhandled
          /\ lastEvent'.dup]_vars

C10_Witness ==
    /\ lastEvent.type = "close"
    /\ lastEvent.dup
    /\ lastEvent.old = NULL
    /\ stream[lastEvent.s] = "closed"
    /\ activeTransport = NULL

(***************************************************************************)
(* C12: whenever no GET /mcp handler is suspended at its await, a session  *)
(* in the slot is one whose setup succeeded and whose stream has not been  *)
(* closed; in particular the slot does not keep a session whose            *)
(* server.connect failed and whose requester was answered 500.             *)
(***************************************************************************)
C12_SlotHoldsLiveSession ==
    (connecting = {} /\ activeTransport # NULL)
    => stream[activeTransport] = "open"

(***************************************************************************)
(* C11: however concurrent tool calls interleave, chromium.launch is       *)
(* called at most once, and ensureBrowser never returns to a caller before *)
(* the shared page has been assigned (it never returns undefined).         *)
(***************************************************************************)
C11_OneBrowserPageReady ==
    /\ launched <= 1
    /\ \A c \in Calls : cpc[c] = "ready" => ret[c] # NULL

(***************************************************************************)
(* C13: a ReadResource of a uri that ListResources lists for a screenshot  *)
(* returns the image stored last under that screenshot's name, and         *)
(* ReadResource fails with 'Resource not found' only for uris that         *)
(* ListResources does not list.                                            *)
(***************************************************************************)
C13_ListedIsReadable ==
    /\ (lastRead.listed /\ lastRead.uri # ConsoleUri)
        => lastRead.result = lastRead.stored
    /\ lastRead.result = NotFound => ~lastRead.listed
====
